---- MODULE Spec2Model ----
(***************************************************************************)
(* A model of the air-script front end: the lexer (atomize), the one-token *)
(* lookahead stream (LookaheadIterator), the recursive-descent parser and  *)
(* the AST -> AIR emission (airify).                                       *)
(*                                                                         *)
(* Text is modelled as sequences of one-character strings, Python lists as *)
(* sequences, Python None as a record of its own, and a raised exception   *)
(* as the name of its class carried in the result of the operator that     *)
(* models the function.  Indices into the source are 0-based as in the     *)
(* code (source[i] is src[i + 1] here).                                    *)
(***************************************************************************)
EXTENDS Integers, Sequences, FiniteSets, TLC

VARIABLES
    \* atomize: the generator's frame
    source, i, line, line_start, yielded, raised, rule,
    \* LookaheadIterator: its two fields, and the calls made on it so far
    iter, lh, calls,
    \* the parser: the program text it is given (as the phrase it spells, and as the
    \* tokens of that phrase), the function applied, what it returned, and the AIR
    input, tokens, fn, result, air,
    \* parse_operator_expression step by step: its two stacks, the operator it has
    \* read, and the statement it is at
    operand_stack, operator_stack, operator, pc

lexvars == <<source, i, line, line_start, yielded, raised, rule>>
itervars == <<iter, lh, calls>>
parsevars == <<input, tokens, fn, result, air>>
climbvars == <<operand_stack, operator_stack, operator, pc>>
vars == <<source, i, line, line_start, yielded, raised, rule, iter, lh, calls, input, tokens, fn, result, air,
          operand_stack, operator_stack, operator, pc>>

(***************************************************************************)
(* Bounds of the model.                                                    *)
(***************************************************************************)
MaxSourceLen == 4
MaxCalls == 5
MaxIterLen == 3
MaxChain == 3
MaxArgs == 2
MaxArms == 2
MaxParams == 2
MaxCaptures == 2
MaxClimb == 3

(***************************************************************************)
(* Characters and text.                                                    *)
(***************************************************************************)
Last(s) == s[Len(s)]

RECURSIVE SeqToSet(_)
SeqToSet(s) == IF s = <<>> THEN {} ELSE {Head(s)} \cup SeqToSet(Tail(s))

upper_letters == <<"A", "B", "C", "D", "E", "F", "G", "H", "I", "J", "K", "L", "M",
                   "N", "O", "P", "Q", "R", "S", "T", "U", "V", "W", "X", "Y", "Z">>
lower_letters == <<"a", "b", "c", "d", "e", "f", "g", "h", "i", "j", "k", "l", "m",
                   "n", "o", "p", "q", "r", "s", "t", "u", "v", "w", "x", "y", "z">>

lower_char(c) ==
    IF \E k \in 1..Len(upper_letters) : upper_letters[k] = c
    THEN lower_letters[CHOOSE k \in 1..Len(upper_letters) : upper_letters[k] = c]
    ELSE c

\* str.lower()
lower(s) == [k \in 1..Len(s) |-> lower_char(s[k])]

digits == <<"0", "1", "2", "3", "4", "5", "6", "7", "8", "9">>

is_digit(c) == \E k \in 1..Len(digits) : digits[k] = c

digit_value(c) == (CHOOSE k \in 1..Len(digits) : digits[k] = c) - 1

\* Python None
None == [type |-> "None"]

(***************************************************************************)
(* Tokens (parser.py 38-100).  A token is a record of its class and its    *)
(* fields.                                                                 *)
(***************************************************************************)
NumericValue(value, location) == [type |-> "NumericValue", value |-> value, location |-> location]

StringValue(value, location) == [type |-> "StringValue", value |-> value, location |-> location]

Atom(name, location) == [type |-> "Atom", name |-> name, location |-> location]

Operator(op, location) == [type |-> "Operator", op |-> op, location |-> location]

Symbol(sym, location) == [type |-> "Symbol", sym |-> sym, location |-> location]

\* airast.SourceLocation(begin, end)
SourceLocation(begin, end) == <<begin, end>>

\* a token built with no location argument (location=None)
NoLocation == <<>>

(***************************************************************************)
(* atomize (parser.py 103-168): one action per branch of the loop body.    *)
(***************************************************************************)
\* the vertical tab of the code's " \r\n\t\v" has no spelling in a TLA+ string and is
\* left out of the alphabet; so is the backquote, which is written "^" here
space == {" ", "\r", "\n", "\t"}

backquote == "^"

atom_terminator == {"(", ")", "[", "]", "{", "}", "\"", "#", ":", ";", ",", backquote} \cup space

special_chars == {"=", "+", "-", "*", "/"}

operators == {"+", "-", "*", "/", "|", ">", "<", "?", "!"}

get_position(ln, idx, ls) == <<ln, idx - ls + 1>>

\* an exception that left the generator: its class and the location it carries
\* (ParserError's location=None and a class with no location are both NoLocation)
NoException == [type |-> "None", location |-> NoLocation]

\* float(value) for the texts the bare-word rule can read over SourceAlphabet:
\* a run of decimal digits is its decimal value, any other text raises ValueError.
RECURSIVE decimal(_, _)
decimal(s, acc) == IF s = <<>> THEN acc ELSE decimal(Tail(s), 10 * acc + digit_value(Head(s)))

float(value) ==
    IF \A k \in 1..Len(value) : is_digit(value[k])
    THEN [exc |-> "", value |-> decimal(value, 0)]
    ELSE [exc |-> "ValueError", value |-> 0]

\* the inner loop of the string and quoted-atom branches (134-138, 144-148)
RECURSIVE scan_quoted(_, _, _, _)
scan_quoted(src, j, delim, value) ==
    IF j >= Len(src) THEN [exc |-> "IndexError", i |-> j, value |-> value]
    ELSE IF src[j + 1] = delim THEN [exc |-> "", i |-> j, value |-> value]
    ELSE IF j + 1 >= Len(src)
         THEN [exc |-> "Unterminated", i |-> j + 1, value |-> Append(value, src[j + 1])]
         ELSE scan_quoted(src, j + 1, delim, Append(value, src[j + 1]))

\* the inner loop of the comment branch (129-130)
RECURSIVE skip_comment(_, _)
skip_comment(src, j) ==
    IF j < Len(src) /\ src[j + 1] # "\n" THEN skip_comment(src, j + 1) ELSE j

\* the inner loop of the bare-word branch (162-163): it tests atom_terminator only
RECURSIVE read_atom(_, _)
read_atom(src, j) ==
    IF j < Len(src) /\ src[j + 1] \notin atom_terminator THEN read_atom(src, j + 1) ELSE j

AtLoopHead == raised = NoException /\ rule # "return" /\ i < Len(source)

LexSpace ==
    /\ AtLoopHead
    /\ source[i + 1] \in space
    /\ line' = IF source[i + 1] = "\n" THEN line + 1 ELSE line
    /\ line_start' = IF source[i + 1] = "\n" THEN i + 1 ELSE line_start
    /\ i' = i + 1
    /\ rule' = "space"
    /\ UNCHANGED <<source, yielded, raised>>

LexComment ==
    /\ AtLoopHead
    /\ source[i + 1] = "#"
    /\ i' = skip_comment(source, i)
    /\ rule' = "comment"
    /\ UNCHANGED <<source, line, line_start, yielded, raised>>

LexString ==
    /\ AtLoopHead
    /\ source[i + 1] = "\""
    /\ LET s == scan_quoted(source, i + 1, "\"", <<>>)
           start_offset == get_position(line, i, line_start)
       IN  IF s.exc = "IndexError"
           THEN /\ raised' = [type |-> "IndexError", location |-> NoLocation]
                /\ i' = s.i
                /\ yielded' = yielded
           ELSE IF s.exc = "Unterminated"
           THEN /\ raised' = [type |-> "ParserError", location |-> NoLocation]
                /\ i' = s.i
                /\ yielded' = yielded
           ELSE /\ raised' = raised
                /\ i' = s.i + 1
                /\ yielded' = Append(yielded,
                       StringValue(s.value,
                           SourceLocation(start_offset, get_position(line, s.i + 1, line_start))))
    /\ rule' = "string"
    /\ UNCHANGED <<source, line, line_start>>

LexQuote ==
    /\ AtLoopHead
    /\ source[i + 1] = backquote
    /\ LET s == scan_quoted(source, i + 1, backquote, <<>>)
           start_offset == get_position(line, i, line_start)
       IN  IF s.exc = "IndexError"
           THEN /\ raised' = [type |-> "IndexError", location |-> NoLocation]
                /\ i' = s.i
                /\ yielded' = yielded
           ELSE IF s.exc = "Unterminated"
           THEN /\ raised' = [type |-> "RuntimeError", location |-> NoLocation]
                /\ i' = s.i
                /\ yielded' = yielded
           ELSE /\ raised' = raised
                /\ i' = s.i + 1
                /\ yielded' = Append(yielded,
                       Atom(s.value,
                           SourceLocation(start_offset, get_position(line, s.i + 1, line_start))))
    /\ rule' = "quote"
    /\ UNCHANGED <<source, line, line_start>>

LexOperator ==
    /\ AtLoopHead
    /\ source[i + 1] \notin space \cup {"#", "\"", backquote}
    /\ source[i + 1] \in operators
    /\ i' = i + 1
    /\ yielded' = Append(yielded,
           Operator(source[i + 1],
               SourceLocation(get_position(line, i, line_start),
                              get_position(line, i + 1, line_start))))
    /\ rule' = "operator"
    /\ UNCHANGED <<source, line, line_start, raised>>

LexSymbol ==
    /\ AtLoopHead
    /\ source[i + 1] \notin space \cup {"#", "\"", backquote}
    /\ source[i + 1] \notin operators
    /\ source[i + 1] \in atom_terminator \cup special_chars
    /\ i' = i + 1
    /\ yielded' = Append(yielded,
           Symbol(source[i + 1],
               SourceLocation(get_position(line, i, line_start),
                              get_position(line, i + 1, line_start))))
    /\ rule' = "symbol"
    /\ UNCHANGED <<source, line, line_start, raised>>

LexAtom ==
    /\ AtLoopHead
    /\ source[i + 1] \notin operators
    /\ source[i + 1] \notin atom_terminator \cup special_chars
    /\ LET start == i
           end == read_atom(source, i)
           value == SubSeq(source, start + 1, end)
           location == SourceLocation(get_position(line, start, line_start),
                                      get_position(line, end, line_start))
       IN  /\ i' = end
           /\ IF is_digit(value[1])
              THEN IF float(value).exc # ""
                   THEN /\ raised' = [type |-> float(value).exc, location |-> NoLocation]
                        /\ yielded' = yielded
                   ELSE /\ raised' = raised
                        /\ yielded' = Append(yielded, NumericValue(float(value).value, location))
              ELSE /\ raised' = raised
                   /\ yielded' = Append(yielded, Atom(value, location))
    /\ rule' = "atom"
    /\ UNCHANGED <<source, line, line_start>>

\* the loop condition fails: the generator returns
LexReturn ==
    /\ raised = NoException
    /\ rule # "return"
    /\ i >= Len(source)
    /\ rule' = "return"
    /\ UNCHANGED <<source, i, line, line_start, yielded, raised>>

(***************************************************************************)
(* LookaheadIterator (parser.py 4-26).  The underlying iterator is the     *)
(* sequence of the tokens it has not produced yet.                         *)
(***************************************************************************)
LookaheadIterator(it) == [iter |-> it, lh |-> None]

\* next() that returns the buffered token and leaves it in the buffer
LookaheadIterator_next_keeping(self) ==
    IF self.lh # None
    THEN [self |-> self, value |-> self.lh, exc |-> ""]
    ELSE IF self.iter = <<>>
         THEN [self |-> self, value |-> None, exc |-> "StopIteration"]
         ELSE [self |-> [self EXCEPT !.iter = Tail(self.iter)], value |-> Head(self.iter), exc |-> ""]

\* next(self.iter): raises StopIteration when the underlying iterator is exhausted
LookaheadIterator_next(self) ==
    IF self.lh # None
    THEN [self |-> [self EXCEPT !.lh = None], value |-> self.lh, exc |-> ""]
    ELSE IF self.iter = <<>>
         THEN [self |-> self, value |-> None, exc |-> "StopIteration"]
         ELSE [self |-> [self EXCEPT !.iter = Tail(self.iter)], value |-> Head(self.iter), exc |-> ""]

\* next(self.iter, None): None when the underlying iterator is exhausted
LookaheadIterator_lookahead(self) ==
    IF self.lh # None
    THEN [self |-> self, value |-> self.lh, exc |-> ""]
    ELSE IF self.iter = <<>>
         THEN [self |-> [self EXCEPT !.lh = None], value |-> None, exc |-> ""]
         ELSE [self |-> [iter |-> Tail(self.iter), lh |-> Head(self.iter)],
               value |-> Head(self.iter), exc |-> ""]

CallNext ==
    /\ Len(calls) < MaxCalls
    /\ LET r == LookaheadIterator_next([iter |-> iter, lh |-> lh])
       IN  /\ iter' = r.self.iter
           /\ lh' = r.self.lh
           /\ calls' = Append(calls, [op |-> "next", value |-> r.value, exc |-> r.exc])

CallLookahead ==
    /\ Len(calls) < MaxCalls
    /\ LET r == LookaheadIterator_lookahead([iter |-> iter, lh |-> lh])
       IN  /\ iter' = r.self.iter
           /\ lh' = r.self.lh
           /\ calls' = Append(calls, [op |-> "lookahead", value |-> r.value, exc |-> r.exc])

(***************************************************************************)
(* AST nodes (airast.py 128-305): a node is a record of its class and its  *)
(* fields.                                                                 *)
(***************************************************************************)
BinaryExpression(op, left, right) ==
    [type |-> "BinaryExpression", op |-> op, left |-> left, right |-> right]

UnaryExpression(op, operand) == [type |-> "UnaryExpression", op |-> op, operand |-> operand]

CaseExpression(cases) == [type |-> "CaseExpression", cases |-> cases]

BlockExpression(block) == [type |-> "BlockExpression", block |-> block]

LetExpression(bindings, block) == [type |-> "LetExpression", bindings |-> bindings, block |-> block]

VariableReference(name) == [type |-> "VariableReference", name |-> name]

IfThenElse(cond, then, otherwise) ==
    [type |-> "IfThenElse", cond |-> cond, then |-> then, otherwise |-> otherwise]

Identifier(name) == [type |-> "Identifier", name |-> name]

ForeachExpression(var_binds, block) == [type |-> "ForeachExpression", vars |-> var_binds, block |-> block]

LambdaExpression(params, captures, expr) ==
    [type |-> "LambdaExpression", params |-> params, captures |-> captures, expr |-> expr]

\* BinaryOperator.precedence
precedence(op) ==
    CASE op \in {"ADD", "SUB"} -> 0
      [] op \in {"MUL", "DIV"} -> 1
      [] op \in {"AND", "OR"} -> -3
      [] op \in {"EQ", "NEQ", "LT", "LE", "GT", "GE"} -> -2

(***************************************************************************)
(* The parser (parser.py 171-482).  A parsing function returns the record  *)
(* [exc, node, it]: the exception it raised ("" for none), the node it     *)
(* returned and the lookahead stream as it left it.                        *)
(***************************************************************************)
Ok(node, it) == [exc |-> "", node |-> node, it |-> it]

Raise(exc, it) == [exc |-> exc, node |-> None, it |-> it]

\* v = <expression>; <the statements K that follow it>
With(v, K(_)) == K(v)

\* r = <call of a parsing function>, whose exception propagates; <the statements K>
Bind(r, K(_)) == IF r.exc # "" THEN r ELSE K(r)

\* a == b on tokens: Atom, Operator and Symbol define __eq__ (Atom without regard
\* to case); the other classes, and None, compare by identity, and a token read
\* from the stream is never the object it is compared with
token_eq(a, b) ==
    CASE a.type = "Atom" -> b.type = "Atom" /\ lower(a.name) = lower(b.name)
      [] a.type = "Operator" -> b.type = "Operator" /\ a.op = b.op
      [] a.type = "Symbol" -> b.type = "Symbol" /\ a.sym = b.sym
      [] OTHER -> FALSE

\* the keyword atoms the parser compares with
kw_begin == Atom(<<"b", "e", "g", "i", "n">>, NoLocation)
kw_end == Atom(<<"e", "n", "d">>, NoLocation)
kw_cond == Atom(<<"c", "o", "n", "d">>, NoLocation)
kw_if == Atom(<<"i", "f">>, NoLocation)
kw_do == Atom(<<"d", "o">>, NoLocation)
kw_otherwise == Atom(<<"o", "t", "h", "e", "r", "w", "i", "s", "e">>, NoLocation)
kw_lambda == Atom(<<"l", "a", "m", "b", "d", "a">>, NoLocation)
kw_using == Atom(<<"u", "s", "i", "n", "g">>, NoLocation)
kw_foreach == Atom(<<"f", "o", "r", "e", "a", "c", "h">>, NoLocation)
kw_in == Atom(<<"i", "n">>, NoLocation)
kw_let == Atom(<<"l", "e", "t">>, NoLocation)
kw_else == Atom(<<"e", "l", "s", "e">>, NoLocation)
kw_and == Atom(<<"a", "n", "d">>, NoLocation)
kw_or == Atom(<<"o", "r">>, NoLocation)
kw_true == Atom(<<"t", "r", "u", "e">>, NoLocation)
kw_false == Atom(<<"f", "a", "l", "s", "e">>, NoLocation)

sym(c) == Symbol(c, NoLocation)

oper(c) == Operator(c, NoLocation)

\* it.next() as a call whose StopIteration propagates: the token is in node
it_next(it) ==
    With(LookaheadIterator_next(it), LAMBDA atom :
        IF atom.exc # "" THEN Raise(atom.exc, atom.self) ELSE Ok(atom.value, atom.self))

expect_exact(it, expected) ==
    Bind(it_next(it), LAMBDA atom :
        IF ~token_eq(atom.node, expected) THEN Raise("ParserError", atom.it)
        ELSE Ok(None, atom.it))

\* airast.JsonValue(value): airast.py defines no JsonValue (the class of that name
\* is in ast.py, which parser.py does not import; airast.py has ValueNode in its
\* place), so evaluating the attribute raises AttributeError
airast_JsonValue(value) == [exc |-> "AttributeError", node |-> None]

parse_simple_value(atom) ==
    IF atom.type = "StringValue" THEN airast_JsonValue(atom.value)
    ELSE IF atom.type = "NumericValue" THEN airast_JsonValue(atom.value)
    ELSE IF token_eq(atom, kw_true) THEN airast_JsonValue(TRUE)
    ELSE IF token_eq(atom, kw_false) THEN airast_JsonValue(FALSE)
    ELSE IF atom.type = "Atom"
         THEN IF atom.name = <<>> THEN [exc |-> "IndexError", node |-> None]
              ELSE IF atom.name[1] = "$"
                   THEN [exc |-> "", node |-> VariableReference(Tail(atom.name))]
                   ELSE [exc |-> "", node |-> Identifier(atom.name)]
    ELSE [exc |-> "", node |-> None]

\* CallExpression.__init__ with its two assertions
CallExpression(func, parameter) ==
    IF func = None \/ \E k \in 1..Len(parameter) : parameter[k] = None
    THEN [exc |-> "AssertionError", node |-> None]
    ELSE [exc |-> "", node |-> [type |-> "CallExpression", func |-> func, parameter |-> parameter]]

terminates_call(token) ==
    IF token_eq(token, sym("(")) THEN FALSE
    ELSE IF token.type = "Symbol" \/ token.type = "Operator" THEN TRUE
    ELSE \E k \in {kw_end, kw_else, kw_begin, kw_do} : token_eq(token, k)

\* parse_operator: [exc, op, it]
parse_operator(it) ==
    With(LookaheadIterator_next(it), LAMBDA n :
        LET is(op) == [exc |-> "", op |-> op, it |-> n.self]
            then_eq_sign(op) ==
                With(expect_exact(n.self, sym("=")), LAMBDA e :
                    [exc |-> e.exc, op |-> op, it |-> e.it])
            or_equal(op, op_eq) ==
                With(LookaheadIterator_lookahead(n.self), LAMBDA ahead :
                    IF token_eq(ahead.value, sym("="))
                    THEN [exc |-> "", op |-> op_eq, it |-> LookaheadIterator_next(ahead.self).self]
                    ELSE [exc |-> "", op |-> op, it |-> ahead.self])
        IN  IF n.exc # "" THEN [exc |-> n.exc, op |-> "", it |-> n.self]
            ELSE IF token_eq(n.value, oper("+")) THEN is("ADD")
            ELSE IF token_eq(n.value, oper("-")) THEN is("SUB")
            ELSE IF token_eq(n.value, oper("*")) THEN is("MUL")
            ELSE IF token_eq(n.value, oper("/")) THEN is("DIV")
            ELSE IF token_eq(n.value, kw_and) THEN is("AND")
            ELSE IF token_eq(n.value, kw_or) THEN is("OR")
            ELSE IF token_eq(n.value, oper("!")) THEN then_eq_sign("NEQ")
            ELSE IF token_eq(n.value, sym("=")) THEN then_eq_sign("EQ")
            ELSE IF token_eq(n.value, oper("<")) THEN or_equal("LT", "LE")
            ELSE IF token_eq(n.value, oper(">")) THEN or_equal("GT", "GE")
            ELSE [exc |-> "ParserError", op |-> "", it |-> n.self])

\* is_operator_ahead: [value, it]
is_operator_ahead(it) ==
    With(LookaheadIterator_lookahead(it), LAMBDA ahead :
        [value |-> \/ ahead.value.type = "Operator"
                   \/ \E t \in {kw_and, kw_or, sym("=")} : token_eq(ahead.value, t),
         it |-> ahead.self])

\* reduce_stacks with next_op = operator_stack[-1], which leaves the operator on
\* its stack
reduce_stacks_peeking(st) ==
    IF Len(st.operand_stack) < 2 \/ Len(st.operator_stack) < 1
    THEN [st EXCEPT !.exc = "AssertionError"]
    ELSE [exc |-> "",
          operand_stack |->
              Append(SubSeq(st.operand_stack, 1, Len(st.operand_stack) - 2),
                     BinaryExpression(Last(st.operator_stack),
                                      st.operand_stack[Len(st.operand_stack) - 1],
                                      Last(st.operand_stack))),
          operator_stack |-> st.operator_stack]

\* reduce_stacks on the pair of stacks st = [exc, operand_stack, operator_stack]
reduce_stacks(st) ==
    IF Len(st.operand_stack) < 2 \/ Len(st.operator_stack) < 1
    THEN [st EXCEPT !.exc = "AssertionError"]
    ELSE [exc |-> "",
          operand_stack |->
              Append(SubSeq(st.operand_stack, 1, Len(st.operand_stack) - 2),
                     BinaryExpression(Last(st.operator_stack),
                                      st.operand_stack[Len(st.operand_stack) - 1],
                                      Last(st.operand_stack))),
          operator_stack |-> SubSeq(st.operator_stack, 1, Len(st.operator_stack) - 1)]

\* the inner loop of parse_operator_expression (384-385)
RECURSIVE reduce_while(_, _)
reduce_while(st, op) ==
    IF st.exc = "" /\ Len(st.operator_stack) > 0
          /\ precedence(Last(st.operator_stack)) >= precedence(op)
    THEN reduce_while(reduce_stacks(st), op)
    ELSE st

\* the final loop of parse_operator_expression (391-392)
RECURSIVE reduce_all(_)
reduce_all(st) ==
    IF st.exc = "" /\ Len(st.operator_stack) # 0 THEN reduce_all(reduce_stacks(st)) ELSE st

\* The parsing functions call one another recursively through invoke(f, it), which
\* stands for the call f(it) of the function named f.
RECURSIVE invoke(_, _)
RECURSIVE block_until_end(_, _)
RECURSIVE function_call_loop(_, _, _)
RECURSIVE operator_expression_loop(_, _)
RECURSIVE condition_cases(_, _)
RECURSIVE lambda_params(_, _)
RECURSIVE lambda_captures(_, _)
RECURSIVE foreach_bindings(_, _)
RECURSIVE let_bindings(_, _)
RECURSIVE let_body(_, _)

\* while it.lookahead() != Atom("end"): block.append(parse_block_expression(it))
\* it.next()  # take end                      (180-182, 247-249, 274-276)
block_until_end(it, block) ==
    With(LookaheadIterator_lookahead(it), LAMBDA ahead :
        IF ~token_eq(ahead.value, kw_end)
        THEN Bind(invoke("parse_block_expression", ahead.self), LAMBDA r :
                 block_until_end(r.it, Append(block, r.node)))
        ELSE Ok(block, LookaheadIterator_next(ahead.self).self))

parse_block(it) ==
    Bind(expect_exact(it, kw_begin), LAMBDA e :
    Bind(block_until_end(e.it, <<>>), LAMBDA b :
    Ok(BlockExpression(b.node), b.it)))

parse_block_or_complex(it) ==
    With(LookaheadIterator_lookahead(it), LAMBDA ahead :
        IF token_eq(ahead.value, kw_begin)
        THEN invoke("parse_block_expression", ahead.self)
        ELSE invoke("parse_complex_expression", ahead.self))

\* the while loop of parse_condition (204-210)
condition_cases(it, cases) ==
    With(LookaheadIterator_lookahead(it), LAMBDA ahead :
        IF ~token_eq(ahead.value, kw_if) THEN Ok(cases, ahead.self)
        ELSE
        Bind(invoke("parse_complex_expression", LookaheadIterator_next(ahead.self).self), LAMBDA cond :
        Bind(expect_exact(cond.it, kw_do), LAMBDA e1 :
        Bind(expect_exact(e1.it, sym(":")), LAMBDA e2 :
        Bind(invoke("parse_complex_expression", e2.it), LAMBDA then :
        condition_cases(then.it, Append(cases, <<cond.node, then.node>>)))))))

\* the otherwise arm of parse_condition (211-215), and the end after it
condition_otherwise(it, cases) ==
    With(LookaheadIterator_lookahead(it), LAMBDA ahead :
        IF token_eq(ahead.value, kw_otherwise)
        THEN
        Bind(expect_exact(LookaheadIterator_next(ahead.self).self, sym(":")), LAMBDA e :
        Bind(invoke("parse_complex_expression", e.it), LAMBDA then :
        With(airast_JsonValue(TRUE), LAMBDA true_value :
            IF true_value.exc # "" THEN Raise(true_value.exc, then.it)
            ELSE Ok(Append(cases, <<true_value.node, then.node>>), then.it))))
        ELSE Ok(cases, ahead.self))

parse_condition(it) ==
    Bind(expect_exact(it, kw_cond), LAMBDA e1 :
    Bind(expect_exact(e1.it, sym(":")), LAMBDA e2 :
    Bind(condition_cases(e2.it, <<>>), LAMBDA arms :
    Bind(condition_otherwise(arms.it, arms.node), LAMBDA cases :
    Bind(expect_exact(cases.it, kw_end), LAMBDA e3 :
    Ok(CaseExpression(cases.node), e3.it))))))

\* var = parse_simple_value(it.next()), which must be a VariableReference; the
\* first loop of parse_lambda_expression passes var.location to RuntimeError and
\* None has no attribute location (224-226), the other loops do not (236-238,
\* 259-261, 284-286)
take_variable(it, with_location) ==
    Bind(it_next(it), LAMBDA n :
        With(parse_simple_value(n.node), LAMBDA var :
            IF var.exc # "" THEN Raise(var.exc, n.it)
            ELSE IF var.node.type # "VariableReference"
                 THEN Raise(IF with_location /\ var.node = None THEN "AttributeError"
                            ELSE "RuntimeError", n.it)
            ELSE Ok(var.node, n.it)))

\* one round of the parameter loop of parse_lambda_expression (223-230)
lambda_params(it, params) ==
    Bind(take_variable(it, TRUE), LAMBDA taken :
        With(LookaheadIterator_lookahead(taken.it), LAMBDA ahead :
            IF \E k \in {kw_using, kw_do} : token_eq(ahead.value, k)
            THEN Ok(Append(params, taken.node), ahead.self)
            ELSE Bind(expect_exact(ahead.self, Symbol("", "")), LAMBDA comma :
                     lambda_params(comma.it, Append(params, taken.node)))))

\* one round of the capture loop of parse_lambda_expression (235-242)
lambda_captures(it, captures) ==
    Bind(take_variable(it, FALSE), LAMBDA taken :
        With(LookaheadIterator_lookahead(taken.it), LAMBDA ahead :
            IF token_eq(ahead.value, kw_do)
            THEN Ok(Append(captures, taken.node), ahead.self)
            ELSE Bind(expect_exact(ahead.self, sym(",")), LAMBDA comma :
                     lambda_captures(comma.it, Append(captures, taken.node)))))

\* the optional using list of parse_lambda_expression (232-242)
lambda_using(it) ==
    With(LookaheadIterator_lookahead(it), LAMBDA ahead :
        IF token_eq(ahead.value, kw_using)
        THEN lambda_captures(LookaheadIterator_next(ahead.self).self, <<>>)
        ELSE Ok(<<>>, ahead.self))

parse_lambda_expression(it) ==
    Bind(expect_exact(it, kw_lambda), LAMBDA e1 :
    Bind(lambda_params(e1.it, <<>>), LAMBDA params :
    Bind(lambda_using(params.it), LAMBDA captures :
    Bind(expect_exact(captures.it, kw_do), LAMBDA e2 :
    Bind(expect_exact(e2.it, sym(":")), LAMBDA e3 :
    Bind(block_until_end(e3.it, <<>>), LAMBDA block :
    Ok(LambdaExpression(params.node, captures.node, BlockExpression(block.node)), block.it)))))))

\* one round of the binding loop of parse_foreach_expression (258-270)
foreach_bindings(it, bindings) ==
    Bind(take_variable(it, FALSE), LAMBDA taken :
        Bind(expect_exact(taken.it, kw_in), LAMBDA e1 :
        Bind(invoke("parse_simple_expression", e1.it), LAMBDA val :
        With(LookaheadIterator_lookahead(val.it), LAMBDA tok :
            IF token_eq(tok.value, kw_do)
            THEN Bind(expect_exact(LookaheadIterator_next(tok.self).self, sym(":")), LAMBDA e2 :
                     Ok(Append(bindings, <<taken.node, val.node>>), e2.it))
            ELSE Bind(expect_exact(tok.self, sym(",")), LAMBDA comma :
                     foreach_bindings(comma.it, Append(bindings, <<taken.node, val.node>>)))))))

parse_foreach_expression(it) ==
    Bind(expect_exact(it, kw_foreach), LAMBDA e1 :
    Bind(foreach_bindings(e1.it, <<>>), LAMBDA bindings :
    Bind(block_until_end(bindings.it, <<>>), LAMBDA body :
    Ok(ForeachExpression(bindings.node, body.node), body.it))))

\* one round of the binding loop of parse_let_expression (283-294)
let_bindings(it, bindings) ==
    Bind(take_variable(it, FALSE), LAMBDA taken :
        Bind(expect_exact(taken.it, sym("=")), LAMBDA e1 :
        Bind(parse_block_or_complex(e1.it), LAMBDA val :
        With(LookaheadIterator_lookahead(val.it), LAMBDA tok :
            IF token_eq(tok.value, sym(";"))
            THEN Ok(Append(bindings, <<taken.node, val.node>>), LookaheadIterator_next(tok.self).self)
            ELSE Bind(expect_exact(tok.self, sym(",")), LAMBDA comma :
                     let_bindings(comma.it, Append(bindings, <<taken.node, val.node>>)))))))

\* the body loop of parse_let_expression (298-299): it stops at end, which it
\* leaves in the stream, and at the end of input
let_body(it, body) ==
    With(LookaheadIterator_lookahead(it), LAMBDA ahead :
        IF ~token_eq(ahead.value, kw_end) /\ ahead.value # None
        THEN Bind(invoke("parse_block_expression", ahead.self), LAMBDA r :
                 let_body(r.it, Append(body, r.node)))
        ELSE Ok(body, ahead.self))

parse_let_expression(it) ==
    Bind(expect_exact(it, kw_let), LAMBDA e1 :
    Bind(let_bindings(e1.it, <<>>), LAMBDA bindings :
    Bind(let_body(bindings.it, <<>>), LAMBDA body :
    Ok(LetExpression(bindings.node, body.node), body.it))))

\* the loop of parse_function_call (315-320)
function_call_loop(it, func, parameter) ==
    With(LookaheadIterator_lookahead(it), LAMBDA n :
        IF terminates_call(n.value)
        THEN With(CallExpression(func, parameter), LAMBDA made :
                 IF made.exc # "" THEN Raise(made.exc, n.self) ELSE Ok(made.node, n.self))
        ELSE Bind(invoke("parse_simple_expression", n.self), LAMBDA arg :
                 function_call_loop(arg.it, func, Append(parameter, arg.node))))

parse_function_call(it, func) == function_call_loop(it, func, <<>>)

\* the main loop of parse_operator_expression (382-389) on
\* st = [exc, operand_stack, operator_stack]: [exc, operand_stack, operator_stack, it]
operator_expression_loop(it, st) ==
    LET stop(exc, at) == [exc |-> exc, operand_stack |-> st.operand_stack,
                          operator_stack |-> st.operator_stack, it |-> at]
    IN  With(is_operator_ahead(it), LAMBDA ahead :
            IF ~ahead.value THEN stop("", ahead.it)
            ELSE
            With(parse_operator(ahead.it), LAMBDA op :
                IF op.exc # "" THEN stop(op.exc, op.it)
                ELSE
                With(reduce_while(st, op.op), LAMBDA reduced :
                    IF reduced.exc # "" THEN stop(reduced.exc, op.it)
                    ELSE
                    With(invoke("parse_simple_expression", op.it), LAMBDA opnd :
                        IF opnd.exc # "" THEN stop(opnd.exc, opnd.it)
                        ELSE operator_expression_loop(opnd.it,
                                 [exc |-> "",
                                  operand_stack |-> Append(reduced.operand_stack, opnd.node),
                                  operator_stack |-> Append(reduced.operator_stack, op.op)])))))

parse_operator_expression(it, first) ==
    With(operator_expression_loop(it,
             [exc |-> "", operand_stack |-> <<first>>, operator_stack |-> <<>>]), LAMBDA looped :
        IF looped.exc # "" THEN Raise(looped.exc, looped.it)
        ELSE
        With(reduce_all([exc |-> "", operand_stack |-> looped.operand_stack,
                         operator_stack |-> looped.operator_stack]), LAMBDA drained :
            IF drained.exc # "" THEN Raise(drained.exc, looped.it)
            ELSE IF Len(drained.operand_stack) # 1 THEN Raise("AssertionError", looped.it)
            ELSE Ok(drained.operand_stack[1], looped.it)))

parse_simple_expression(it) ==
    Bind(it_next(it), LAMBDA atom :
        IF token_eq(atom.node, sym("("))
        THEN Bind(invoke("parse_complex_expression", atom.it), LAMBDA expr :
             Bind(expect_exact(expr.it, sym(")")), LAMBDA close :
             Ok(expr.node, close.it)))
        ELSE IF token_eq(atom.node, oper("-"))
        THEN Bind(invoke("parse_simple_expression", atom.it), LAMBDA expr :
             Ok(UnaryExpression("NEG", expr.node), expr.it))
        ELSE With(parse_simple_value(atom.node), LAMBDA value :
                 IF value.exc # "" THEN Raise(value.exc, atom.it)
                 ELSE Ok(value.node, atom.it)))

parse_composed_expression(it) ==
    Bind(invoke("parse_simple_expression", it), LAMBDA first :
    With(LookaheadIterator_lookahead(first.it), LAMBDA ahead :
        IF ahead.value.type = "Operator"
        THEN parse_operator_expression(ahead.self, first.node)
        ELSE IF ahead.value.type = "Atom" \/ token_eq(ahead.value, sym("("))
        THEN parse_function_call(ahead.self, first.node)
        ELSE Ok(first.node, ahead.self)))

parse_if_else_expression(it) ==
    Bind(expect_exact(it, kw_if), LAMBDA e1 :
    Bind(invoke("parse_simple_expression", e1.it), LAMBDA cond :
    Bind(expect_exact(cond.it, sym(":")), LAMBDA e2 :
    Bind(invoke("parse_block_expression", e2.it), LAMBDA then :
    Bind(expect_exact(then.it, kw_else), LAMBDA e3 :
    Bind(expect_exact(e3.it, sym(":")), LAMBDA e4 :
    Bind(invoke("parse_block_expression", e4.it), LAMBDA otherwise :
    Bind(expect_exact(otherwise.it, kw_end), LAMBDA e5 :
    Ok(IfThenElse(cond.node, then.node, otherwise.node), e5.it)))))))))

parse_complex_expression(it) ==
    With(LookaheadIterator_lookahead(it), LAMBDA ahead :
        IF token_eq(ahead.value, kw_if) THEN parse_if_else_expression(ahead.self)
        ELSE IF token_eq(ahead.value, kw_lambda) THEN parse_lambda_expression(ahead.self)
        ELSE parse_composed_expression(ahead.self))

parse_block_expression(it) ==
    With(LookaheadIterator_lookahead(it), LAMBDA atom :
        IF token_eq(atom.value, kw_begin) THEN parse_block(atom.self)
        ELSE IF token_eq(atom.value, kw_cond) THEN parse_condition(atom.self)
        ELSE IF token_eq(atom.value, kw_let) THEN parse_let_expression(atom.self)
        ELSE IF token_eq(atom.value, kw_foreach) THEN parse_foreach_expression(atom.self)
        ELSE Bind(invoke("parse_complex_expression", atom.self), LAMBDA expr :
             With(LookaheadIterator_lookahead(expr.it), LAMBDA ahead :
                 IF token_eq(ahead.value, sym(";"))
                 THEN Ok(expr.node, LookaheadIterator_next(ahead.self).self)
                 ELSE Ok(expr.node, ahead.self))))

invoke(f, it) ==
    CASE f = "parse_simple_expression" -> parse_simple_expression(it)
      [] f = "parse_complex_expression" -> parse_complex_expression(it)
      [] f = "parse_block_expression" -> parse_block_expression(it)

\* the loop of parse (480-481)
RECURSIVE parse_loop(_, _)
parse_loop(it, block) ==
    With(LookaheadIterator_lookahead(it), LAMBDA ahead :
        IF ahead.value # None
        THEN Bind(invoke("parse_block_expression", ahead.self), LAMBDA r :
                 parse_loop(r.it, Append(block, r.node)))
        ELSE Ok(BlockExpression(block), ahead.self))

\* parse, given the tokens atomize yields for the source
parse(toks) == parse_loop(LookaheadIterator(toks), <<>>)

(***************************************************************************)
(* airify (airast.py 176-305).  An AIR value is a string, a number, a      *)
(* boolean or a list of AIR values; calling airify on None raises           *)
(* AttributeError, which is the value AirRaised here and makes every list  *)
(* that would hold it AirRaised too.                                       *)
(***************************************************************************)
AirStr(s) == [air |-> "str", str |-> s]

AirNum(n) == [air |-> "num", num |-> n]

AirBool(b) == [air |-> "bool", bool |-> b]

AirRaised == [air |-> "AttributeError"]

AirList(items) ==
    IF \E k \in 1..Len(items) : items[k] = AirRaised THEN AirRaised
    ELSE [air |-> "list", items |-> items]

\* BinaryOperator.name
BinaryOperator_name(op) ==
    CASE op = "ADD" -> <<"+">>
      [] op = "SUB" -> <<"-">>
      [] op = "MUL" -> <<"*">>
      [] op = "DIV" -> <<"/">>
      [] op = "AND" -> <<"a", "n", "d">>
      [] op = "OR" -> <<"o", "r">>
      [] op = "EQ" -> <<"e", "q", "?">>
      [] op = "NEQ" -> <<"n", "e", "?">>
      [] op = "LT" -> <<"l", "t", "?">>
      [] op = "LE" -> <<"l", "e", "?">>
      [] op = "GT" -> <<"g", "t", "?">>
      [] op = "GE" -> <<"g", "e", "?">>

RECURSIVE airify(_)
airify(node) ==
    LET all(nodes) == [k \in 1..Len(nodes) |-> airify(nodes[k])]
        pairs(ps) == [k \in 1..Len(ps) |-> AirList(<<airify(ps[k][1]), airify(ps[k][2])>>)]
        named(ps) == [k \in 1..Len(ps) |-> AirList(<<AirStr(ps[k][1].name), airify(ps[k][2])>>)]
        names(vs) == [k \in 1..Len(vs) |-> AirStr(vs[k].name)]
        quote(v) == AirList(<<AirStr(<<"q", "u", "o", "t", "e">>), v>>)
    IN  CASE node.type = "BinaryExpression" ->
                 AirList(<<AirStr(BinaryOperator_name(node.op)), airify(node.left), airify(node.right)>>)
          [] node.type = "UnaryExpression" ->
                 AirList(<<AirStr(<<"-">>), AirNum(0), airify(node.operand)>>)
          [] node.type = "CaseExpression" ->
                 AirList(<<AirStr(<<"i", "f">>)>> \o pairs(node.cases))
          [] node.type = "BlockExpression" ->
                 IF Len(node.block) = 1 THEN airify(node.block[1])
                 ELSE AirList(<<AirStr(<<"s", "e", "q">>)>> \o all(node.block))
          [] node.type = "LetExpression" ->
                 AirList(<<AirStr(<<"l", "e", "t">>), AirList(named(node.bindings))>> \o all(node.block))
          [] node.type = "CallExpression" ->
                 AirList(<<airify(node.func)>> \o all(node.parameter))
          [] node.type = "VariableReference" ->
                 AirList(<<AirStr(<<"v", "a", "r", "-", "r", "e", "f">>), AirStr(node.name)>>)
          [] node.type = "IfThenElse" ->
                 AirList(<<AirStr(<<"i", "f">>),
                           AirList(<<airify(node.cond), airify(node.then)>>),
                           AirList(<<AirBool(TRUE), airify(node.otherwise)>>)>>)
          [] node.type = "Identifier" -> AirStr(node.name)
          [] node.type = "ForeachExpression" ->
                 AirList(<<AirStr(<<"f", "o", "r", "e", "a", "c", "h">>), AirList(named(node.vars))>>
                         \o all(node.block))
          [] node.type = "LambdaExpression" ->
                 AirList(<<AirStr(<<"l", "a", "m", "b", "d", "a">>),
                           quote(AirList(names(node.captures))),
                           quote(AirList(names(node.params))),
                           quote(airify(node.expr))>>)
          [] OTHER -> AirRaised

(***************************************************************************)
(* The specifications.  Each one runs one component and leaves the         *)
(* variables of the others at rest.                                        *)
(***************************************************************************)
SeqsUpTo(S, n) == UNION {[1..k -> S] : k \in 0..n}

SourceAlphabet == {" ", "\n", "#", "\"", backquote, "+", "=", "1", "a"}

LexIdle ==
    /\ source = <<>> /\ i = 0 /\ line = 1 /\ line_start = 0
    /\ yielded = <<>> /\ raised = NoException /\ rule = "idle"

IterIdle == iter = <<>> /\ lh = None /\ calls = <<>>

ParseIdle == input = None /\ tokens = <<>> /\ fn = "idle" /\ result = None /\ air = None

ClimbIdle == operand_stack = <<>> /\ operator_stack = <<>> /\ operator = "" /\ pc = "idle"

\* the lexer on every source text over SourceAlphabet of at most MaxSourceLen characters
LexInit ==
    /\ source \in SeqsUpTo(SourceAlphabet, MaxSourceLen)
    /\ i = 0 /\ line = 1 /\ line_start = 0
    /\ yielded = <<>> /\ raised = NoException /\ rule = "start"
    /\ IterIdle /\ ParseIdle /\ ClimbIdle

LexNext ==
    \/ LexSpace /\ UNCHANGED <<itervars, parsevars, climbvars>>
    \/ LexComment /\ UNCHANGED <<itervars, parsevars, climbvars>>
    \/ LexString /\ UNCHANGED <<itervars, parsevars, climbvars>>
    \/ LexQuote /\ UNCHANGED <<itervars, parsevars, climbvars>>
    \/ LexOperator /\ UNCHANGED <<itervars, parsevars, climbvars>>
    \/ LexSymbol /\ UNCHANGED <<itervars, parsevars, climbvars>>
    \/ LexAtom /\ UNCHANGED <<itervars, parsevars, climbvars>>
    \/ LexReturn /\ UNCHANGED <<itervars, parsevars, climbvars>>

LexSpec == LexInit /\ [][LexNext]_vars

\* the lookahead stream over every token sequence of at most MaxIterLen tokens
IterTokens == {Atom(<<"a">>, NoLocation), Symbol(";", NoLocation), NumericValue(1, NoLocation)}

\* tokens keeps the sequence the stream was built over
IterInit ==
    /\ iter \in SeqsUpTo(IterTokens, MaxIterLen)
    /\ lh = None /\ calls = <<>>
    /\ tokens = iter
    /\ input = None /\ fn = "idle" /\ result = None /\ air = None
    /\ LexIdle /\ ClimbIdle

IterNext ==
    \/ CallNext /\ UNCHANGED <<lexvars, parsevars, climbvars>>
    \/ CallLookahead /\ UNCHANGED <<lexvars, parsevars, climbvars>>

IterSpec == IterInit /\ [][IterNext]_vars

(***************************************************************************)
(* Properties of the lookahead stream (IterSpec).                          *)
(***************************************************************************)
\* C2: peek is idempotent and non-consuming.  In every state of the stream, end of
\* input included, a lookahead() that directly follows a lookahead() returns the
\* same token (or the same end-of-input sentinel), and a next() that directly
\* follows a lookahead() returns that same token and raises nothing.
C2_PeekIdempotentThenNext ==
    \A k \in 1..(Len(calls) - 1) :
        calls[k].op = "lookahead" =>
            /\ calls[k].exc = ""
            /\ calls[k + 1].exc = ""
            /\ calls[k + 1].value = calls[k].value

\* The part of C2 that is about lookahead() alone: consecutive lookahead() calls
\* return the same value and never raise.
PeekIdempotent ==
    \A k \in 1..(Len(calls) - 1) :
        (calls[k].op = "lookahead" /\ calls[k + 1].op = "lookahead") =>
            /\ calls[k].exc = "" /\ calls[k + 1].exc = ""
            /\ calls[k + 1].value = calls[k].value

\* away from the end of input the next() after a lookahead() returns the peeked token
PeekThenNextBeforeEnd ==
    \A k \in 1..(Len(calls) - 1) :
        (calls[k].op = "lookahead" /\ calls[k + 1].op = "next" /\ calls[k].value # None) =>
            calls[k + 1].exc = "" /\ calls[k + 1].value = calls[k].value

\* C3: at end of input next() yields the sentinel instead of failing.  A next()
\* called when the underlying sequence is exhausted and nothing is buffered
\* returns None and raises no exception, as lookahead() does.
C3_NextAtEndYieldsSentinel ==
    [][(iter = <<>> /\ lh = None /\ Len(calls') = Len(calls) + 1)
          => (Last(calls').exc = "" /\ Last(calls').value = None)]_vars

\* lookahead() at end of input returns the sentinel and raises nothing
LookaheadAtEndYieldsSentinel ==
    [][(iter = <<>> /\ lh = None /\ Len(calls') = Len(calls) + 1 /\ Last(calls').op = "lookahead")
          => (Last(calls').exc = "" /\ Last(calls').value = None)]_vars

\* the tokens the next() calls made so far have returned, in the order of the calls
Returned ==
    LET took == SelectSeq(calls, LAMBDA c : c.op = "next" /\ c.exc = "")
    IN  [k \in 1..Len(took) |-> took[k].value]

\* the token in the buffer, if there is one
Buffered == IF lh = None THEN <<>> ELSE <<lh>>

\* C15: the stream is a faithful one-token buffer.  After any interleaving of
\* lookahead() and next() calls, the tokens next() has returned are the first
\* tokens of the underlying sequence, in order; followed by the buffered token and
\* by what the underlying iterator still holds they are the whole sequence (none
\* lost, doubled or moved); and the tokens pulled from the underlying iterator
\* are the returned ones or one more.
C15_FaithfulOneTokenBuffer ==
    /\ Returned = SubSeq(tokens, 1, Len(Returned))
    /\ Returned \o Buffered \o iter = tokens
    /\ (Len(tokens) - Len(iter)) - Len(Returned) \in {0, 1}

\* two different tokens were returned, by a next() on the buffer and a next() on
\* the underlying iterator, and a third is buffered
C15_Witness ==
    /\ Len(Returned) = 2
    /\ tokens[1] # tokens[2]
    /\ lh # None
    /\ calls[1].op = "lookahead"

(***************************************************************************)
(* Properties of the lexer (LexSpec).                                      *)
(***************************************************************************)
\* the (line, column) of the 0-based offset k of src: line = 1 + the newlines
\* before k, column = 1 + the distance from the last newline before k
TruePosition(src, k) ==
    LET newlines == {n \in 1..k : src[n] = "\n"}
        last_newline == IF newlines = {} THEN 0 ELSE CHOOSE n \in newlines : \A m \in newlines : m <= n
    IN  <<1 + Cardinality(newlines), k - last_newline + 1>>

\* the 0-based offset of the last occurrence of the character c in src
LastOffsetOf(src, c) ==
    (CHOOSE n \in 1..Len(src) : src[n] = c /\ \A m \in (n + 1)..Len(src) : src[m] # c) - 1

\* C9: an unterminated string literal or quoted atom (the opening delimiter being
\* the last character included) stops the lexer with a lexical error, a
\* ParserError and no other exception, that carries the position at which the
\* literal began.
C9_UnterminatedRaisesLexError ==
    (rule \in {"string", "quote"} /\ raised # NoException) =>
        /\ raised.type = "ParserError"
        /\ raised.location =
               TruePosition(source, LastOffsetOf(source, IF rule = "string" THEN "\"" ELSE backquote))

\* C10: the bare-word rule reads the maximal run of characters outside the
\* terminator set, which holds the characters = + - * / besides punctuation and
\* whitespace: the run ends at the end of input or before a terminator, an Atom it
\* yields holds none of = + - * /, and a run that starts with a digit yields a
\* NumericValue (so the rule raises nothing).
C10_BareWordStopsAtSpecialChars ==
    rule = "atom" =>
        /\ raised = NoException
        /\ i < Len(source) => source[i + 1] \in atom_terminator \cup special_chars
        /\ Last(yielded).type = "Atom" =>
               \A k \in 1..Len(Last(yielded).name) : Last(yielded).name[k] \notin special_chars

\* C10's first example: 1+1 lexes to NumericValue(1), Operator(+), NumericValue(1)
C10_Example ==
    (source = <<"1", "+", "1">> /\ (rule = "return" \/ raised # NoException)) =>
        /\ raised = NoException
        /\ Len(yielded) = 3
        /\ yielded[1].type = "NumericValue" /\ yielded[1].value = 1
        /\ yielded[2].type = "Operator" /\ yielded[2].op = "+"
        /\ yielded[3].type = "NumericValue" /\ yielded[3].value = 1

\* C11: token spans.  Every token the lexer yields carries the span from the true
\* (line, column) of its first character to the true (line, column) of the
\* position after its last character, in every source, tokens that hold or follow
\* a string literal or quoted atom with a newline in it included.
C11_TokenSpansAreTrue ==
    [][Len(yielded') = Len(yielded) + 1 =>
           Last(yielded').location =
               SourceLocation(TruePosition(source, i), TruePosition(source, i'))]_vars

\* A token read when the line bookkeeping is right, and which holds no newline,
\* carries its true span.
SpansOfOneLineTokens ==
    [][(/\ Len(yielded') = Len(yielded) + 1
        /\ get_position(line, i, line_start) = TruePosition(source, i)
        /\ \A k \in (i + 1)..i' : source[k] # "\n") =>
           Last(yielded').location =
               SourceLocation(TruePosition(source, i), TruePosition(source, i'))]_vars

\* The bookkeeping goes wrong only inside a string literal or a quoted atom: the
\* other rules leave line and line_start true when they found them true.
LineCountLostOnlyInQuoted ==
    [][(/\ get_position(line, i, line_start) = TruePosition(source, i)
        /\ rule' \notin {"string", "quote", "return"}
        /\ i' # i) =>
           get_position(line', i', line_start') = TruePosition(source, i')]_vars

(***************************************************************************)
(* The parser's specification: every parsing function on every phrase of   *)
(* its inputs, and airify on every node a parsing function returns.        *)
(* input records the phrase, tokens is its token sequence.                 *)
(***************************************************************************)
tok_a == Atom(<<"$", "a">>, NoLocation)
tok_b == Atom(<<"$", "b">>, NoLocation)
tok_c == Atom(<<"$", "c">>, NoLocation)
tok_d == Atom(<<"$", "d">>, NoLocation)
tok_e == Atom(<<"$", "e">>, NoLocation)
tok_f == Atom(<<"f">>, NoLocation)
tok_1 == NumericValue(1, NoLocation)
tok_END == Atom(<<"E", "N", "D">>, NoLocation)

RECURSIVE Flatten(_)
Flatten(ss) == IF ss = <<>> THEN <<>> ELSE Head(ss) \o Flatten(Tail(ss))

\* the k-th operand of a chain is the k-th variable, or the literal 1
chain_vars == <<tok_a, tok_b, tok_c, tok_d, tok_e>>

\* the binary operators of the chains, and the tokens that spell each
ChainOperators == {"ADD", "SUB", "MUL", "LT", "LE", "EQ", "AND"}

Spelling(op) ==
    CASE op = "ADD" -> <<oper("+")>>
      [] op = "SUB" -> <<oper("-")>>
      [] op = "MUL" -> <<oper("*")>>
      [] op = "LT" -> <<oper("<")>>
      [] op = "LE" -> <<oper("<"), sym("=")>>
      [] op = "EQ" -> <<sym("="), sym("=")>>
      [] op = "AND" -> <<kw_and>>

\* operand (operator operand)^n, for n up to MaxChain
Chains(n) ==
    {[kind |-> "chain", operands |-> opnds, ops |-> ops] :
        opnds \in {o \in [1..(n + 1) -> {tok_1} \cup SeqToSet(chain_vars)] :
                      \A k \in 1..(n + 1) : o[k] \in {tok_1, chain_vars[k]}},
        ops \in [1..n -> ChainOperators]}

ChainTokens(c) ==
    <<c.operands[1]>> \o
    Flatten([k \in 1..Len(c.ops) |-> Spelling(c.ops[k]) \o <<c.operands[k + 1]>>])

\* callee argument^n terminator $d, and callee argument^n at the end of input; an
\* argument is a variable, the literal 1 or a parenthesised variable
CallArguments == {<<tok_a>>, <<tok_1>>, <<sym("("), tok_b, sym(")")>>}

CallTerminators ==
    {sym(";"), sym(","), sym(")"), oper("+"), kw_end, tok_END, kw_else, kw_begin, kw_do}

Calls ==
    {[kind |-> "call", callee |-> callee, args |-> args, term |-> term] :
        callee \in {tok_f, tok_c},
        args \in SeqsUpTo(CallArguments, MaxArgs),
        term \in CallTerminators \cup {None}}

CallTokens(c) ==
    <<c.callee>> \o Flatten(c.args) \o (IF c.term = None THEN <<>> ELSE <<c.term, tok_d>>)

\* cond : (if value do : value)^n [otherwise : value] end
PlainValues == {kw_true, tok_1, tok_a}

Conds ==
    {[kind |-> "cond", arms |-> arms, otherwise |-> otherwise] :
        arms \in SeqsUpTo(PlainValues \X PlainValues, MaxArms),
        otherwise \in PlainValues \cup {None}}

CondTokens(c) ==
    <<kw_cond, sym(":")>> \o
    Flatten([k \in 1..Len(c.arms) |-> <<kw_if, c.arms[k][1], kw_do, sym(":"), c.arms[k][2]>>]) \o
    (IF c.otherwise = None THEN <<>> ELSE <<kw_otherwise, sym(":"), c.otherwise>>) \o
    <<kw_end>>

\* lambda parameter , ... [using capture , ...] do : [$x] end, where a parameter or
\* a capture is a variable or the name f
Lambdas ==
    {[kind |-> "lambda", params |-> params, captures |-> captures, body |-> body] :
        params \in SeqsUpTo({tok_a, tok_b, tok_f}, MaxParams) \ {<<>>},
        captures \in SeqsUpTo({tok_c, tok_f}, MaxCaptures),
        body \in {<<>>, <<tok_a>>, <<tok_d>>}}

\* the tokens of list, separated by commas
RECURSIVE CommaSeparated(_)
CommaSeparated(list) ==
    IF Len(list) <= 1 THEN list
    ELSE <<Head(list), sym(",")>> \o CommaSeparated(Tail(list))

LambdaTokens(c) ==
    <<kw_lambda>> \o CommaSeparated(c.params) \o
    (IF c.captures = <<>> THEN <<>> ELSE <<kw_using>> \o CommaSeparated(c.captures)) \o
    <<kw_do, sym(":")>> \o c.body \o <<kw_end>>

\* a symbol or operator where a statement or an operand is expected: alone, after
\* the statement $a ; or as the right operand of $a +
Strays ==
    {[kind |-> "stray", before |-> before, token |-> token] :
        before \in {<<>>, <<tok_a, sym(";")>>, <<tok_a, oper("+")>>},
        token \in {sym(";"), sym(")"), oper("*")}}

StrayTokens(c) == c.before \o <<c.token>>

TokensOf(c) ==
    CASE c.kind = "chain" -> ChainTokens(c)
      [] c.kind = "call" -> CallTokens(c)
      [] c.kind = "cond" -> CondTokens(c)
      [] c.kind = "lambda" -> LambdaTokens(c)
      [] c.kind = "stray" -> StrayTokens(c)

Init ==
    /\ \/ \E n \in 0..MaxChain : input \in Chains(n)
       \/ input \in Calls \cup Conds \cup Lambdas \cup Strays
    /\ tokens = TokensOf(input)
    /\ fn = "start" /\ result = None /\ air = None
    /\ LexIdle /\ IterIdle /\ ClimbIdle

\* parse(source) on the tokens of the source
Parse ==
    /\ fn = "start"
    /\ fn' = "parse"
    /\ result' = parse(tokens)
    /\ UNCHANGED <<input, tokens, air>>

\* parse_composed_expression(it) on a fresh stream
ParseComposedExpression ==
    /\ fn = "start"
    /\ fn' = "parse_composed_expression"
    /\ result' = parse_composed_expression(LookaheadIterator(tokens))
    /\ UNCHANGED <<input, tokens, air>>

\* first = parse_simple_expression(it); parse_operator_expression(it, first)
ParseOperatorExpression ==
    /\ fn = "start"
    /\ fn' = "parse_operator_expression"
    /\ result' = Bind(parse_simple_expression(LookaheadIterator(tokens)), LAMBDA first :
                      parse_operator_expression(first.it, first.node))
    /\ UNCHANGED <<input, tokens, air>>

\* first = parse_simple_expression(it); parse_function_call(it, first)
ParseFunctionCall ==
    /\ fn = "start"
    /\ fn' = "parse_function_call"
    /\ result' = Bind(parse_simple_expression(LookaheadIterator(tokens)), LAMBDA first :
                      parse_function_call(first.it, first.node))
    /\ UNCHANGED <<input, tokens, air>>

\* parse_condition(it) on a fresh stream
ParseCondition ==
    /\ fn = "start"
    /\ fn' = "parse_condition"
    /\ result' = parse_condition(LookaheadIterator(tokens))
    /\ UNCHANGED <<input, tokens, air>>

\* parse_lambda_expression(it) on a fresh stream
ParseLambdaExpression ==
    /\ fn = "start"
    /\ fn' = "parse_lambda_expression"
    /\ result' = parse_lambda_expression(LookaheadIterator(tokens))
    /\ UNCHANGED <<input, tokens, air>>

\* ast.airify() on what the parsing function returned (main.py 19)
Airify ==
    /\ fn \notin {"start", "idle"}
    /\ air = None
    /\ result.exc = ""
    /\ air' = airify(result.node)
    /\ UNCHANGED <<input, tokens, fn, result>>

Next ==
    \/ Parse /\ UNCHANGED <<lexvars, itervars, climbvars>>
    \/ ParseComposedExpression /\ UNCHANGED <<lexvars, itervars, climbvars>>
    \/ ParseOperatorExpression /\ UNCHANGED <<lexvars, itervars, climbvars>>
    \/ ParseFunctionCall /\ UNCHANGED <<lexvars, itervars, climbvars>>
    \/ ParseCondition /\ UNCHANGED <<lexvars, itervars, climbvars>>
    \/ ParseLambdaExpression /\ UNCHANGED <<lexvars, itervars, climbvars>>
    \/ Airify /\ UNCHANGED <<lexvars, itervars, climbvars>>

Spec == Init /\ [][Next]_vars

(***************************************************************************)
(* parse_operator_expression statement by statement (parser.py 370-395),   *)
(* on the stream iter, lh that holds the chain after its first operand.    *)
(* pc is the statement the function is at: the head of the main loop, the  *)
(* inner loop that reduces, the parse of the operand, the loop that        *)
(* drains; or the function has returned, or raised.                        *)
(***************************************************************************)
\* the chains of up to MaxClimb operators in which only the last operand may be
\* the literal
ClimbChains(n) ==
    {[kind |-> "chain",
      operands |-> [k \in 1..(n + 1) |-> IF k = n + 1 THEN last ELSE chain_vars[k]],
      ops |-> ops] :
        last \in {tok_1, chain_vars[n + 1]},
        ops \in [1..n -> ChainOperators]}

ClimbInputs == UNION {ClimbChains(n) : n \in 0..MaxClimb}

\* operand_stack = [first]; operator_stack = []
ClimbInit ==
    /\ input \in ClimbInputs
    /\ tokens = TokensOf(input)
    /\ fn = "parse_operator_expression" /\ result = None /\ air = None
    /\ \E first \in {parse_simple_expression(LookaheadIterator(tokens))} :
           /\ first.exc = ""
           /\ operand_stack = <<first.node>>
           /\ iter = first.it.iter /\ lh = first.it.lh
    /\ operator_stack = <<>> /\ operator = "" /\ pc = "loop_head"
    /\ calls = <<>> /\ LexIdle

\* while is_operator_ahead(it): op = parse_operator(it)
ClimbLoopHead ==
    /\ pc = "loop_head"
    /\ \E ahead \in {is_operator_ahead([iter |-> iter, lh |-> lh])} :
           IF ~ahead.value
           THEN /\ pc' = "drain"
                /\ iter' = ahead.it.iter /\ lh' = ahead.it.lh
                /\ UNCHANGED <<operator, result>>
           ELSE \E parsed \in {parse_operator(ahead.it)} :
                    /\ iter' = parsed.it.iter /\ lh' = parsed.it.lh
                    /\ IF parsed.exc # ""
                       THEN /\ pc' = "raised"
                            /\ result' = Raise(parsed.exc, parsed.it)
                            /\ UNCHANGED operator
                       ELSE /\ pc' = "reduce"
                            /\ operator' = parsed.op
                            /\ UNCHANGED result
    /\ UNCHANGED <<operand_stack, operator_stack, input, tokens, fn, air, calls>>

\* one call of reduce_stacks() on the two stacks
ReduceStacksStep ==
    \E st \in {reduce_stacks([exc |-> "", operand_stack |-> operand_stack,
                              operator_stack |-> operator_stack])} :
        IF st.exc # ""
        THEN /\ pc' = "raised"
             /\ result' = Raise(st.exc, [iter |-> iter, lh |-> lh])
             /\ UNCHANGED <<operand_stack, operator_stack>>
        ELSE /\ operand_stack' = st.operand_stack
             /\ operator_stack' = st.operator_stack
             /\ UNCHANGED <<pc, result>>

\* while len(operator_stack) > 0 and operator_stack[-1].precedence() >= op.precedence():
\*     reduce_stacks()
ClimbReduce ==
    /\ pc = "reduce"
    /\ Len(operator_stack) > 0
    /\ precedence(Last(operator_stack)) >= precedence(operator)
    /\ ReduceStacksStep
    /\ UNCHANGED <<operator, iter, lh, input, tokens, fn, air, calls>>

\* operator_stack.append(op)
ClimbPushOperator ==
    /\ pc = "reduce"
    /\ ~(Len(operator_stack) > 0 /\ precedence(Last(operator_stack)) >= precedence(operator))
    /\ operator_stack' = Append(operator_stack, operator)
    /\ pc' = "operand"
    /\ UNCHANGED <<operand_stack, operator, result, iter, lh, input, tokens, fn, air, calls>>

\* opnd = parse_simple_expression(it); operand_stack.append(opnd)
ClimbPushOperand ==
    /\ pc = "operand"
    /\ \E opnd \in {parse_simple_expression([iter |-> iter, lh |-> lh])} :
           /\ iter' = opnd.it.iter /\ lh' = opnd.it.lh
           /\ IF opnd.exc # ""
              THEN /\ pc' = "raised"
                   /\ result' = Raise(opnd.exc, opnd.it)
                   /\ UNCHANGED operand_stack
              ELSE /\ pc' = "loop_head"
                   /\ operand_stack' = Append(operand_stack, opnd.node)
                   /\ UNCHANGED result
    /\ UNCHANGED <<operator_stack, operator, input, tokens, fn, air, calls>>

\* while len(operator_stack) != 0: reduce_stacks()
ClimbDrain ==
    /\ pc = "drain"
    /\ Len(operator_stack) # 0
    /\ ReduceStacksStep
    /\ UNCHANGED <<operator, iter, lh, input, tokens, fn, air, calls>>

\* assert len(operand_stack) == 1; return operand_stack[0]
ClimbReturn ==
    /\ pc = "drain"
    /\ Len(operator_stack) = 0
    /\ IF Len(operand_stack) # 1
       THEN /\ pc' = "raised"
            /\ result' = Raise("AssertionError", [iter |-> iter, lh |-> lh])
       ELSE /\ pc' = "returned"
            /\ result' = Ok(operand_stack[1], [iter |-> iter, lh |-> lh])
    /\ UNCHANGED <<operand_stack, operator_stack, operator, iter, lh, input, tokens, fn, air, calls>>

ClimbNext ==
    \/ ClimbLoopHead /\ UNCHANGED lexvars
    \/ ClimbReduce /\ UNCHANGED lexvars
    \/ ClimbPushOperator /\ UNCHANGED lexvars
    \/ ClimbPushOperand /\ UNCHANGED lexvars
    \/ ClimbDrain /\ UNCHANGED lexvars
    \/ ClimbReturn /\ UNCHANGED lexvars

ClimbSpec == ClimbInit /\ [][ClimbNext]_vars

(***************************************************************************)
(* Properties of the parser (Spec).                                        *)
(***************************************************************************)
IsVariable(token) == token.type = "Atom" /\ token.name # <<>> /\ token.name[1] = "$"

AllVariables(list) == \A k \in 1..Len(list) : IsVariable(list[k])

\* the literal node of a value
Literal(value) == [type |-> "Literal", value |-> value]

\* what a plain value spells: a literal, a variable reference or a name
PlainNode(token) ==
    IF token.type = "NumericValue" THEN Literal(token.value)
    ELSE IF token = kw_true THEN Literal(TRUE)
    ELSE IF IsVariable(token) THEN VariableReference(Tail(token.name))
    ELSE Identifier(token.name)

\* the AIR of a plain value: the value itself, ["var-ref", name] for a variable
PlainAir(token) ==
    IF token.type = "NumericValue" THEN AirNum(token.value)
    ELSE IF token = kw_true THEN AirBool(TRUE)
    ELSE IF IsVariable(token)
         THEN AirList(<<AirStr(<<"v", "a", "r", "-", "r", "e", "f">>), AirStr(Tail(token.name))>>)
    ELSE AirStr(token.name)

\* the tokens a parsing function left in the stream
Remaining(it) == (IF it.lh = None THEN <<>> ELSE <<it.lh>>) \o it.iter

\* the precedence table of the language
PrecedenceTable(op) ==
    CASE op \in {"MUL", "DIV"} -> 1
      [] op \in {"ADD", "SUB"} -> 0
      [] op \in {"EQ", "NEQ", "LT", "LE", "GT", "GE"} -> -2
      [] op \in {"AND", "OR"} -> -3

\* The tree of the chain operands[1] ops[1] operands[2] ... in which higher
\* precedence binds tighter and equal precedence groups to the left: its root is
\* the last operator of the lowest precedence, its subtrees are the trees of the
\* chains on either side of that operator.
RECURSIVE ClimbedTree(_, _)
ClimbedTree(operands, ops) ==
    IF ops = <<>> THEN PlainNode(operands[1])
    ELSE LET root == CHOOSE k \in 1..Len(ops) :
                         /\ \A j \in 1..Len(ops) : PrecedenceTable(ops[k]) <= PrecedenceTable(ops[j])
                         /\ \A j \in (k + 1)..Len(ops) : PrecedenceTable(ops[k]) < PrecedenceTable(ops[j])
         IN  BinaryExpression(ops[root],
                 ClimbedTree(SubSeq(operands, 1, root), SubSeq(ops, 1, root - 1)),
                 ClimbedTree(SubSeq(operands, root + 1, Len(operands)), SubSeq(ops, root + 1, Len(ops))))

\* C1: precedence climbing.  For every chain operand (operator operand)*, of
\* literals and variables, parse_operator_expression raises nothing and returns
\* the tree in which a higher-precedence operator binds tighter than its
\* neighbour, equal precedence groups to the left and the operands are in source
\* order (1 + 2 * 3 -> ADD(1, MUL(2, 3))).
C1_PrecedenceClimbingTree ==
    (fn = "parse_operator_expression" /\ input.kind = "chain") =>
        /\ result.exc = ""
        /\ result.node = ClimbedTree(input.operands, input.ops)

\* On the chains whose operands are all variables parse_operator_expression does
\* return that tree.
PrecedenceClimbingOfVariables ==
    (fn = "parse_operator_expression" /\ input.kind = "chain" /\ AllVariables(input.operands)) =>
        /\ result.exc = ""
        /\ result.node = ClimbedTree(input.operands, input.ops)

\* C4: in parse_composed_expression a first simple expression (here a variable)
\* followed by a binary operator of the table, be it an Operator token, the
\* equality comparison or the keyword and, continues as an operator expression:
\* the call raises nothing and returns a BinaryExpression ($a and $b -> AND(a, b)).
C4_ComposedContinuesAsOperatorExpression ==
    (/\ fn = "parse_composed_expression" /\ input.kind = "chain"
     /\ Len(input.ops) >= 1 /\ AllVariables(input.operands)) =>
        /\ result.exc = ""
        /\ result.node.type = "BinaryExpression"
        /\ Len(input.ops) = 1 =>
               result.node = BinaryExpression(input.ops[1], PlainNode(input.operands[1]),
                                              PlainNode(input.operands[2]))

\* When the operator after the first simple expression is spelled with an Operator
\* token, parse_composed_expression does continue as an operator expression.
ComposedContinuesOnOperatorToken ==
    (/\ fn = "parse_composed_expression" /\ input.kind = "chain"
     /\ Len(input.ops) >= 1 /\ AllVariables(input.operands)
     /\ input.ops[1] \notin {"EQ", "AND"}) =>
        /\ result.exc = ""
        /\ result.node = ClimbedTree(input.operands, input.ops)

\* the node of a call's argument: a plain value, or a parenthesised plain value
ArgumentNode(argument) ==
    IF Len(argument) = 1 THEN PlainNode(argument[1]) ELSE PlainNode(argument[2])

\* the CallExpression of the phrase c
CallOf(c) ==
    [type |-> "CallExpression", func |-> PlainNode(c.callee),
     parameter |-> [k \in 1..Len(c.args) |-> ArgumentNode(c.args[k])]]

\* C5: a call's argument list.  For a callee followed by a run of simple
\* expressions (literals, variables, parenthesised expressions) and then a
\* terminating token (a Symbol other than "(", an Operator, or end / else / begin /
\* do in any case), parse_function_call raises nothing, returns the CallExpression
\* of exactly those arguments in source order (none when the terminator follows
\* the callee directly) and leaves the terminating token in the stream.
C5_CallCollectsArgumentsUntilTerminator ==
    (fn = "parse_function_call" /\ input.kind = "call" /\ input.term # None) =>
        /\ result.exc = ""
        /\ result.node = CallOf(input)
        /\ Remaining(result.it) = <<input.term, tok_d>>

\* When no argument is a literal, parse_function_call does collect exactly the run
\* of arguments before the terminating token, and leaves that token unconsumed.
CallCollectsArgumentsWithoutLiterals ==
    (/\ fn = "parse_function_call" /\ input.kind = "call" /\ input.term # None
     /\ \A k \in 1..Len(input.args) : input.args[k] # <<tok_1>>) =>
        /\ result.exc = ""
        /\ result.node = CallOf(input)
        /\ Remaining(result.it) = <<input.term, tok_d>>

\* ["if", [cond1, result1], ..., [true, otherwiseResult]] for the phrase c
CondAir(c) ==
    AirList(<<AirStr(<<"i", "f">>)>> \o
            [k \in 1..Len(c.arms) |-> AirList(<<PlainAir(c.arms[k][1]), PlainAir(c.arms[k][2])>>)] \o
            (IF c.otherwise = None THEN <<>>
             ELSE <<AirList(<<AirBool(TRUE), PlainAir(c.otherwise)>>)>>))

\* C6: a cond of plain values.  parse_condition raises nothing on
\* cond : (if value do : value)* [otherwise : value] end, and the node it returns
\* airifies to ["if", [cond1, result1], ..., [true, otherwiseResult]], one pair per
\* arm in source order, the AIR of a plain value being the value itself
\* (cond: if true do: 1 otherwise: 2 end -> ["if", [true, 1], [true, 2]]).
C6_CondAirifiesToIfPairs ==
    (fn = "parse_condition" /\ input.kind = "cond") =>
        /\ result.exc = ""
        /\ air # None => air = CondAir(input)

\* the cond of the example: cond: if true do: 1 otherwise: 2 end
C6_Example ==
    (/\ fn = "parse_condition" /\ input.kind = "cond"
     /\ input.arms = <<(<<kw_true, tok_1>>)>> /\ input.otherwise = tok_1) =>
        result.exc = ""

\* ["quote", v]
Quote(v) == AirList(<<AirStr(<<"q", "u", "o", "t", "e">>), v>>)

\* the names of a list of variables, as AIR strings
AirNames(list) == AirList([k \in 1..Len(list) |-> AirStr(Tail(list[k].name))])

\* C7: a lambda whose body is one variable reference directly followed by end
\* airifies to ["lambda", ["quote", captures], ["quote", parameters],
\* ["quote", ["var-ref", x]]]: the quoted body is the variable reference itself.
C7_LambdaBodyIsTheVariableReference ==
    (/\ fn = "parse_lambda_expression" /\ input.kind = "lambda"
     /\ Len(input.body) = 1 /\ air # None) =>
        air = AirList(<<AirStr(<<"l", "a", "m", "b", "d", "a">>),
                        Quote(AirNames(input.captures)),
                        Quote(AirNames(input.params)),
                        Quote(PlainAir(input.body[1]))>>)

\* Apart from the body, the AIR of such a lambda is as C7 has it: captures first,
\* then the parameters, then the quoted body, which is the call of the variable
\* with no argument.
LambdaBodyIsACallOfTheVariable ==
    (/\ fn = "parse_lambda_expression" /\ input.kind = "lambda"
     /\ Len(input.body) = 1 /\ air # None) =>
        air = AirList(<<AirStr(<<"l", "a", "m", "b", "d", "a">>),
                        Quote(AirNames(input.captures)),
                        Quote(AirNames(input.params)),
                        Quote(AirList(<<PlainAir(input.body[1])>>))>>)

\* the names of the variable references of a list of nodes
NodeNames(nodes) == [k \in 1..Len(nodes) |-> nodes[k].name]

TokenNames(list) == [k \in 1..Len(list) |-> Tail(list[k].name)]

\* C8: parameter and capture lists.  parse_lambda_expression accepts a list of
\* one or more parameters separated by commas and an optional using list of
\* captures separated by commas: it returns the LambdaExpression of those
\* parameters and captures in source order, and it fails only when a parameter or
\* a capture is not a variable.
C8_LambdaAcceptsParameterLists ==
    (fn = "parse_lambda_expression" /\ input.kind = "lambda") =>
        IF AllVariables(input.params) /\ AllVariables(input.captures)
        THEN /\ result.exc = ""
             /\ result.node.type = "LambdaExpression"
             /\ NodeNames(result.node.params) = TokenNames(input.params)
             /\ NodeNames(result.node.captures) = TokenNames(input.captures)
        ELSE result.exc # ""

\* With one parameter parse_lambda_expression does behave as C8 says, whatever
\* the number of captures.
LambdaAcceptsOneParameter ==
    (fn = "parse_lambda_expression" /\ input.kind = "lambda" /\ Len(input.params) = 1) =>
        IF AllVariables(input.params) /\ AllVariables(input.captures)
        THEN /\ result.exc = ""
             /\ result.node.type = "LambdaExpression"
             /\ NodeNames(result.node.params) = TokenNames(input.params)
             /\ NodeNames(result.node.captures) = TokenNames(input.captures)
        ELSE result.exc # ""

\* a call phrase with an argument and no literal among its arguments
CallWithArguments(c) ==
    /\ c.kind = "call"
    /\ Len(c.args) >= 1
    /\ \A k \in 1..Len(c.args) : c.args[k] # <<tok_1>>

\* C12: the end of input ends a call's argument list.  When the program is a call
\* (a simple expression followed by an Atom or "(") and the input ends right after
\* the last argument, parse raises nothing and returns the program whose last
\* statement is that CallExpression.
C12_EndOfInputTerminatesCall ==
    (fn = "parse" /\ CallWithArguments(input) /\ input.term = None) =>
        /\ result.exc = ""
        /\ result.node.block # <<>>
        /\ Last(result.node.block) = CallOf(input)

\* What parse does on such a program: the StopIteration of it.next() at the end
\* of input escapes from it.
EndOfInputInCallRaisesStopIteration ==
    (fn = "parse" /\ CallWithArguments(input) /\ input.term = None) =>
        result.exc = "StopIteration"

\* With a semicolon after the last argument parse returns the call as a
\* statement (followed here by the statement $d).
SemicolonTerminatesCall ==
    (fn = "parse" /\ CallWithArguments(input) /\ input.term = sym(";")) =>
        /\ result.exc = ""
        /\ result.node = BlockExpression(<<CallOf(input), PlainNode(tok_d)>>)

\* node is a node, and so is every child of it, down to the leaves
RECURSIVE NoNullSlot(_)
NoNullSlot(node) ==
    /\ node # None
    /\ CASE node.type = "BinaryExpression" -> NoNullSlot(node.left) /\ NoNullSlot(node.right)
         [] node.type = "UnaryExpression" -> NoNullSlot(node.operand)
         [] node.type = "CaseExpression" ->
                \A k \in 1..Len(node.cases) :
                    NoNullSlot(node.cases[k][1]) /\ NoNullSlot(node.cases[k][2])
         [] node.type = "BlockExpression" ->
                \A k \in 1..Len(node.block) : NoNullSlot(node.block[k])
         [] node.type = "LetExpression" ->
                /\ \A k \in 1..Len(node.bindings) : NoNullSlot(node.bindings[k][2])
                /\ \A k \in 1..Len(node.block) : NoNullSlot(node.block[k])
         [] node.type = "CallExpression" ->
                /\ NoNullSlot(node.func)
                /\ \A k \in 1..Len(node.parameter) : NoNullSlot(node.parameter[k])
         [] node.type = "IfThenElse" ->
                NoNullSlot(node.cond) /\ NoNullSlot(node.then) /\ NoNullSlot(node.otherwise)
         [] node.type = "ForeachExpression" ->
                /\ \A k \in 1..Len(node.vars) : NoNullSlot(node.vars[k][2])
                /\ \A k \in 1..Len(node.block) : NoNullSlot(node.block[k])
         [] node.type = "LambdaExpression" -> NoNullSlot(node.expr)
         [] OTHER -> TRUE

\* C13: no null child.  Whenever parse returns an AST, every child slot of it
\* holds a node (each statement, operand, callee, argument and binding value), and
\* airify of the AST succeeds; so a stray Symbol or Operator in expression
\* position, such as a lone ; or ), makes parse raise.
C13_NoNullChildSlots ==
    (fn = "parse" /\ result.exc = "") =>
        /\ NoNullSlot(result.node)
        /\ air # AirRaised

\* C13's example: on a lone ; or ) parse raises
C13_Example ==
    (/\ fn = "parse" /\ input.kind = "stray" /\ input.before = <<>>
     /\ input.token \in {sym(";"), sym(")")}) => result.exc # ""

\* CallExpression's own assertions do keep a null out of a call that parse
\* returns: the callee and the arguments of its top-level calls are nodes.
CallsHoldNoNull ==
    (fn = "parse" /\ result.exc = "") =>
        \A k \in 1..Len(result.node.block) :
            (result.node.block[k] # None /\ result.node.block[k].type = "CallExpression") =>
                /\ result.node.block[k].func # None
                /\ \A j \in 1..Len(result.node.block[k].parameter) :
                       result.node.block[k].parameter[j] # None

(***************************************************************************)
(* Properties of the two stacks (ClimbSpec).                               *)
(***************************************************************************)
\* the precedences on the operator stack increase strictly from bottom to top
StrictlyIncreasing(stack) ==
    \A k \in 1..(Len(stack) - 1) : precedence(stack[k]) < precedence(stack[k + 1])

\* C14: the stack invariant of precedence climbing.  At the head of every
\* iteration of the main loop the operand stack holds exactly one element more
\* than the operator stack; after each push (and so at every moment, a reduction
\* only popping) the precedences on the operator stack increase strictly from
\* bottom to top; and no assertion of reduce_stacks, nor the final one, fails.
C14_StackInvariant ==
    /\ pc = "loop_head" => Len(operand_stack) = Len(operator_stack) + 1
    /\ pc # "idle" => StrictlyIncreasing(operator_stack)
    /\ pc = "raised" => result.exc # "AssertionError"

\* the loop is at its head after it pushed a second operator on top of a first,
\* having reduced an operator before
C14_Witness ==
    /\ pc = "loop_head"
    /\ Len(operator_stack) = 2
    /\ Len(operand_stack) = 3
    /\ operand_stack[1].type = "BinaryExpression"

\* What the statements compute step by step is what the operator
\* parse_operator_expression computes at once.
ClimbAgreesWithFunction ==
    pc \in {"returned", "raised"} =>
        \E whole \in {Bind(parse_simple_expression(LookaheadIterator(tokens)), LAMBDA first :
                           parse_operator_expression(first.it, first.node))} :
            /\ result.exc = whole.exc
            /\ result.node = whole.node
            /\ result.exc = "" => result.it = whole.it

====
